---- MODULE Spec2Model ----
(***************************************************************************)
(* Model of src/src/Google/src/spreadsheet.ts: the lookup helpers of the   *)
(* attendance sheet (username row, date column, next practice, event info, *)
(* event description) over a read-only sheet and a time-bounded cache.     *)
(***************************************************************************)
EXTENDS Integers, Sequences, FiniteSets, TLC

VARIABLES
  sheet,      \* the spreadsheet: username column, info rows, backgrounds
  today,      \* the day "new Date()" falls on, as a day number
  cache,      \* the script cache: key -> [ttl, val]; ttl = 0 is "no entry"
  pc,         \* "idle", or "loop" inside getNextPracticeDate's for loop
  frame,      \* locals of the call in progress
  last,       \* outcome of the last completed top-level call
  runs        \* outcome of the latest run of getNextPracticeDate in each mode

vars == <<sheet, today, cache, pc, frame, last, runs>>

----------------------------------------------------------------------------
(* Bounds of the model *)

\* rows of the username column (getLastRow)
MaxRow == 3
\* columns of the sheet (getLastColumn)
MaxCol == 3
\* the latest day "today" reaches
MaxDay == 1

----------------------------------------------------------------------------
(* Configuration constants of the script (declared outside spreadsheet.ts) *)

HEADER_ROWS == 1
HEADER_COLS == 1
MAX_EVENT_SEARCH_DISTANCE == 7
CACHE_DURATION == 2
CACHE_DURATION_SHORT == 1
FIRST_INFO_ROW == 1
DESCRIPTION_ROW == 1
DATE_ROW == 2
TIME_ROW == 3
LOCATION_ROW == 4
COUNT_ROW == 5
LAST_INFO_ROW == 5
USERNAME_COL_CACHE_KEY == "usernames"
DATE_ROW_CACHE_KEY == "dateRow"
EVENT_INFO_CACHE_KEY_PREFIX == "eventInfo"
WHITE_COLOR == "#ffffff"
DATE_HELP_INFO == " <DATE_HELP_INFO>"

----------------------------------------------------------------------------
(* Values *)

\* a raw cell value as getValues() returns it: a string or a Date
Str(s) == [t |-> "string", v |-> s]
DateVal(iso) == [t |-> "date", v |-> iso]

\* the result of parseInt: an integer or NaN; after JSON, null may appear
Num(n) == [k |-> "int", n |-> n]
NaN == [k |-> "NaN", n |-> 0]
Null == [k |-> "null", n |-> 0]

\* number -> string, as the + of a string and a number converts it
NumberToString(n) ==
  CASE n = 0 -> "0" [] n = 1 -> "1" [] n = 2 -> "2" [] n = 3 -> "3"
    [] n = 4 -> "4" [] n = 5 -> "5" [] n = 6 -> "6" [] n = 7 -> "7"
    [] n = 8 -> "8" [] n = 9 -> "9" [] n = 10 -> "10" [] n = 11 -> "11"
    [] OTHER -> "12"

\* day number -> the m/d/yyyy text the date row displays; day 0 is 3/1/2024
getDateText(d) == "3/" \o NumberToString(d + 1) \o "/2024"

\* parseInt of a display value
parseInt(s) ==
  CASE s = "0" -> Num(0) [] s = "3" -> Num(3) [] s = "12" -> Num(12)
    [] s = "3 going" -> Num(3)
    [] OTHER -> NaN

\* Array.prototype.indexOf(x, from): 0-based index of the first element equal
\* to x at an index >= from, or -1
IndexOf(seq, x, from) ==
  LET hits == {j \in from .. Len(seq) - 1 : seq[j + 1] = x}
  IN IF hits = {} THEN -1 ELSE CHOOSE j \in hits : \A h \in hits : j <= h

\* JSON.stringify followed by JSON.parse of one raw cell value: a Date is
\* serialised through toJSON to its ISO string, a string stays a string
JsonCell(c) == IF c.t = "date" THEN Str(c.v) ELSE c

\* JSON round trip of the username list
JsonList(xs) == [j \in 1 .. Len(xs) |-> JsonCell(xs[j])]

\* JSON round trip of a list of display values: getDisplayValues() yields
\* strings only, and a string is parsed back as the string it was
JsonStrings(xs) == xs

\* JSON round trip of a number: NaN is serialised as null
JsonNumber(x) == IF x.k = "NaN" THEN Null ELSE x

\* JSON round trip of an EventInfo record
JsonInfo(e) == [e EXCEPT !.count = JsonNumber(e.count)]

----------------------------------------------------------------------------
(* The sheet *)

ISO1 == "2024-03-01T08:00:00.000Z"

UserCells == {Str("alice"), Str(ISO1), DateVal(ISO1)}
Usernames == {"alice", "carol", ISO1}

DateCells == {"", getDateText(5), getDateText(7)}

Cols == 1 .. MaxCol
InfoRows == FIRST_INFO_ROW .. LAST_INFO_ROW

UsernameColumns == [1 .. MaxRow -> UserCells]
DateRows == [Cols -> DateCells]

\* the fixed part of the info rows: description, time and location
BaseDisplay(r, c) ==
  CASE r = DESCRIPTION_ROW -> (IF c = 2 THEN "PRACTICE" ELSE "scrimmage")
    [] r = TIME_ROW -> (IF c = 2 THEN "7-9pm" ELSE "noon")
    [] r = LOCATION_ROW -> (IF c = 2 THEN "Field A" ELSE "Gym")
    [] OTHER -> ""

CountCells == {"12", ""}
Colors == {WHITE_COLOR, "#ffff00"}

Display(dates, counts) ==
  [r \in InfoRows |-> [c \in Cols |->
     IF r = DATE_ROW THEN dates[c]
     ELSE IF r = COUNT_ROW THEN counts[c]
     ELSE BaseDisplay(r, c)]]

DefaultUsers == [r \in 1 .. MaxRow |-> Str("alice")]
DefaultDates == [c \in Cols |-> IF c <= HEADER_COLS THEN "" ELSE getDateText(5)]
DefaultCounts == [c \in Cols |-> "12"]
DefaultColors == [c \in Cols |-> WHITE_COLOR]

MkSheet(users, dates, counts, colors) ==
  [users |-> users, display |-> Display(dates, counts), background |-> colors]

\* every username column, over a fixed rest of the sheet
UserSheets ==
  {MkSheet(u, DefaultDates, DefaultCounts, DefaultColors) : u \in UsernameColumns}

\* every date row, over a fixed rest of the sheet
DateSheets ==
  {MkSheet(DefaultUsers, d, DefaultCounts, DefaultColors) : d \in DateRows}

\* every count row and every colouring, over a fixed rest of the sheet
EventSheets ==
  {MkSheet(DefaultUsers, DefaultDates, n, b) :
     n \in [Cols -> CountCells], b \in [Cols -> Colors]}

\* a few whole sheets, for the runs that interleave all the lookups
OddUsers == [r \in 1 .. MaxRow |-> IF r = 2 THEN DateVal(ISO1) ELSE Str(ISO1)]
OddDates == [c \in Cols |-> IF c = 1 THEN getDateText(5) ELSE ""]
OddCounts == [c \in Cols |-> IF c = 2 THEN "" ELSE "12"]
OddColors == [c \in Cols |-> IF c = 2 THEN "#ffff00" ELSE WHITE_COLOR]

CoreSheets ==
  {MkSheet(u, DefaultDates, DefaultCounts, DefaultColors) : u \in {DefaultUsers, OddUsers}}
  \cup {MkSheet(u, OddDates, OddCounts, OddColors) : u \in {DefaultUsers, OddUsers}}

\* sheet.getLastRow(), sheet.getLastColumn()
getLastRow(s) == Len(s.users)
getLastColumn(s) == Len(s.display[DATE_ROW])

\* sheet.getRange(1, USERNAME_COL, lastRow, 1).getValues().map(x => x[0])
ReadUsernames(s) == SubSeq(s.users, 1, getLastRow(s))

\* sheet.getRange(DATE_ROW, 1, 1, lastCol).getDisplayValues()[0]
ReadDateRow(s) == SubSeq(s.display[DATE_ROW], 1, getLastColumn(s))

----------------------------------------------------------------------------
(* The cache *)

EventKey(col) == EVENT_INFO_CACHE_KEY_PREFIX \o NumberToString(col)

\* the columns event info is asked for: the columns after the header columns
EventCols == HEADER_COLS + 1 .. MaxCol

Keys ==
  {USERNAME_COL_CACHE_KEY, DATE_ROW_CACHE_KEY} \cup {EventKey(c) : c \in EventCols}

NoEntry == [ttl |-> 0, val |-> <<>>]

\* tryFetchCache(key): a hit with the stored value while the entry lives
tryFetchCache(c, key) ==
  IF c[key].ttl > 0 THEN [hit |-> TRUE, result |-> c[key].val]
  ELSE [hit |-> FALSE, result |-> <<>>]

\* cache.put(key, value, ttl)
CachePut(c, key, val, ttl) == [c EXCEPT ![key] = [ttl |-> ttl, val |-> val]]

----------------------------------------------------------------------------
(* Records of calls *)

NoLoc == [valid |-> FALSE, date |-> "", offset |-> 0]
NoInfo == [eventType |-> "", eventDate |-> "", eventTime |-> "",
           eventLocation |-> "", count |-> Null, includeTimeLoc |-> FALSE]

NoCall ==
  [fn |-> "none", status |-> "none", num |-> 0, text |-> "", info |-> NoInfo,
   msg |-> <<>>, reads |-> <<>>, puts |-> <<>>, live |-> FALSE,
   username |-> "", loc |-> NoLoc, col |-> 0, flag |-> FALSE,
   returnCol |-> FALSE, examined |-> <<>>, day |-> 0]

NoRun == [seen |-> FALSE, day |-> 0, ok |-> FALSE, num |-> 0, text |-> "", msg |-> <<>>]

NoFrame ==
  [caller |-> "none", loc |-> NoLoc, returnCol |-> FALSE, dates |-> <<>>,
   date |-> 0, i |-> 0, examined |-> <<>>, reads |-> <<>>, puts |-> <<>>,
   live |-> FALSE, day |-> 0]

----------------------------------------------------------------------------
(* getUserRow, lines 9-38 *)

\* lines 15-32: the username list, from the cache or from the sheet
FetchUsernamesMiss(s, c) ==
  LET usernames == ReadUsernames(s)
  IN [usernames |-> usernames,
      cache |-> CachePut(c, USERNAME_COL_CACHE_KEY, JsonList(usernames), CACHE_DURATION),
      reads |-> <<"getLastRow", "getRange", "getValues">>,
      puts |-> <<[key |-> USERNAME_COL_CACHE_KEY, val |-> JsonList(usernames),
                  ttl |-> CACHE_DURATION]>>]


\* lines 15-32 reading the sheet whatever the cache holds
FetchUsernamesAlwaysRead(s, c) == FetchUsernamesMiss(s, c)

FetchUsernames(s, c) ==
  LET cacheResult == tryFetchCache(c, USERNAME_COL_CACHE_KEY)
  IN IF cacheResult.hit
     THEN [usernames |-> cacheResult.result, cache |-> c, reads |-> <<>>, puts |-> <<>>]
     ELSE FetchUsernamesMiss(s, c)

\* line 33: usernames.indexOf(username, HEADER_ROWS)
UserIndex(usernames, username) == IndexOf(usernames, Str(username), HEADER_ROWS)

\* line 35: the thrown text, as its concatenated parts
UserNotFoundMsg(username) == <<"username ", username, " not found on spreadsheet!">>

getUserRow(username) ==
  /\ pc = "idle"
  /\ LET f == FetchUsernames(sheet, cache)
         row == UserIndex(f.usernames, username)
         call == [NoCall EXCEPT !.fn = "getUserRow", !.username = username,
                                !.reads = f.reads, !.puts = f.puts,
                                !.live = cache[USERNAME_COL_CACHE_KEY].ttl > 0]
     IN /\ cache' = f.cache
        /\ last' = IF row = -1
                   THEN [call EXCEPT !.status = "err", !.msg = UserNotFoundMsg(username)]
                   ELSE [call EXCEPT !.status = "ok", !.num = row + 1]
  /\ UNCHANGED <<sheet, today, pc, frame, runs>>

----------------------------------------------------------------------------
(* getDateRowValues, lines 80-93 *)

DateRowMiss(s, c) ==
  LET dates == ReadDateRow(s)
  IN [dates |-> dates,
      cache |-> CachePut(c, DATE_ROW_CACHE_KEY, JsonStrings(dates), CACHE_DURATION),
      reads |-> <<"getLastColumn", "getRange", "getDisplayValues">>,
      puts |-> <<[key |-> DATE_ROW_CACHE_KEY, val |-> JsonStrings(dates),
                  ttl |-> CACHE_DURATION]>>]

getDateRowValues(s, c) ==
  LET cacheResult == tryFetchCache(c, DATE_ROW_CACHE_KEY)
  IN IF cacheResult.hit
     THEN [dates |-> cacheResult.result, cache |-> c, reads |-> <<>>, puts |-> <<>>]
     ELSE DateRowMiss(s, c)

\* lines 61 and 110: dates.indexOf(text, HEADER_COLS)
DateIndex(dates, text) == IndexOf(dates, text, HEADER_COLS)

----------------------------------------------------------------------------
(* getNextPracticeDate, lines 102-119 *)


\* line 109 with <= for <
LoopContinuesInclusive(i) == i <= MAX_EVENT_SEARCH_DISTANCE

\* line 109: the loop condition
LoopContinues(i) == i < MAX_EVENT_SEARCH_DISTANCE

\* line 113: date.setTime(date.getTime() + ONE_DAY)
NextCandidate(date) == date + 1


\* line 116 returning the 0-based index
NextPracticeValueZeroBased(returnCol, col, date) ==
  IF returnCol THEN [num |-> col, text |-> ""]
  ELSE [num |-> 0, text |-> getDateText(date)]

\* line 116: returnCol ? col + 1 : getDateText(date)
NextPracticeValue(returnCol, col, date) ==
  IF returnCol THEN [num |-> col + 1, text |-> ""]
  ELSE [num |-> 0, text |-> getDateText(date)]

\* line 118: the thrown text
NoPracticeMsg ==
  <<"no practice in next ", NumberToString(MAX_EVENT_SEARCH_DISTANCE), " days.">>

\* lines 107-108: new Date(), getDateRowValues(sheet), i = 0
EnterLoop(caller, loc, returnCol, c, reads, puts, live) ==
  LET f == getDateRowValues(sheet, c)
  IN /\ cache' = f.cache
     /\ pc' = "loop"
     /\ last' = NoCall
     /\ frame' = [caller |-> caller, loc |-> loc, returnCol |-> returnCol,
                  dates |-> f.dates, date |-> today, i |-> 0, examined |-> <<>>,
                  reads |-> reads \o f.reads, puts |-> puts \o f.puts,
                  live |-> live, day |-> today]

----------------------------------------------------------------------------
(* getDateCol, lines 46-73 *)

\* the string conversion of a ColumnLocator inside a template literal
LocatorToString(loc) == "[object Object]"

\* line 68: the text thrown when the nested search fails too
DateNotFoundMsg(loc) ==
  <<"couldn't find any event on ", LocatorToString(loc), ".", DATE_HELP_INFO>>

\* line 70: the text thrown with the suggestion
DateNotFoundNextMsg(loc, nextPrac) ==
  <<"couldn't find any event on ", loc.date, ". Next practice is on ", nextPrac,
    ".", DATE_HELP_INFO>>


\* line 72 with the offset forgotten
DateColValueNoOffset(col, loc) == col + 1

\* line 72: col + date.getOffset() + 1
DateColValue(col, loc) == col + loc.offset + 1

\* the record of the call in progress
FrameCall(fn, examined) ==
  [NoCall EXCEPT !.fn = fn, !.loc = frame.loc, !.returnCol = frame.returnCol,
                 !.reads = frame.reads, !.puts = frame.puts, !.live = frame.live,
                 !.examined = examined, !.day = frame.day]


\* line 53 with the locator's offset added as line 72 adds it
LoopReturnWithOffset(v, examined) ==
  CASE frame.caller = "none" ->
         [FrameCall("getNextPracticeDate", examined) EXCEPT
            !.status = "ok", !.num = v.num, !.text = v.text]
    [] frame.caller = "invalid" ->
         [FrameCall("getDateCol", examined) EXCEPT
            !.status = "ok", !.num = v.num + frame.loc.offset]
    [] frame.caller = "notfound" ->
         [FrameCall("getDateCol", examined) EXCEPT
            !.status = "err", !.msg = DateNotFoundNextMsg(frame.loc, v.text)]

\* the loop returns v (line 116): what each caller makes of it
LoopReturn(v, examined) ==
  CASE frame.caller = "none" ->
         [FrameCall("getNextPracticeDate", examined) EXCEPT
            !.status = "ok", !.num = v.num, !.text = v.text]
    [] frame.caller = "invalid" ->   \* line 53
         [FrameCall("getDateCol", examined) EXCEPT !.status = "ok", !.num = v.num]
    [] frame.caller = "notfound" ->  \* lines 66, 70
         [FrameCall("getDateCol", examined) EXCEPT
            !.status = "err", !.msg = DateNotFoundNextMsg(frame.loc, v.text)]

\* the loop throws (line 118): what each caller makes of it
LoopThrow(msg, examined) ==
  CASE frame.caller = "none" ->
         [FrameCall("getNextPracticeDate", examined) EXCEPT
            !.status = "err", !.msg = msg]
    [] frame.caller = "invalid" ->   \* lines 54-57
         [FrameCall("getDateCol", examined) EXCEPT !.status = "err", !.msg = msg]
    [] frame.caller = "notfound" ->  \* lines 67-69
         [FrameCall("getDateCol", examined) EXCEPT
            !.status = "err", !.msg = DateNotFoundMsg(frame.loc)]

\* a top-level call of getNextPracticeDate(sheet, returnCol)
getNextPracticeDate(returnCol) ==
  /\ pc = "idle"
  /\ EnterLoop("none", NoLoc, returnCol, cache, <<>>, <<>>,
               cache[DATE_ROW_CACHE_KEY].ttl > 0)
  /\ UNCHANGED <<sheet, today, runs>>

\* the outcome of a finished run, kept under its mode
RunsAfter(ok, v, msg) ==
  [runs EXCEPT ![frame.returnCol] =
     [seen |-> TRUE, day |-> frame.day, ok |-> ok, num |-> v.num, text |-> v.text,
      msg |-> msg]]

\* one evaluation of the loop condition and, when it holds, of the body
LoopStep ==
  /\ pc = "loop"
  /\ IF LoopContinues(frame.i)
     THEN LET col == DateIndex(frame.dates, getDateText(frame.date))
              examined == Append(frame.examined, frame.date)
              v == NextPracticeValue(frame.returnCol, col, frame.date)
          IN IF col = -1
             THEN /\ frame' = [frame EXCEPT !.date = NextCandidate(frame.date),
                                            !.i = frame.i + 1,
                                            !.examined = examined]
                  /\ UNCHANGED <<pc, last, runs>>
             ELSE /\ last' = LoopReturn(v, examined)
                  /\ runs' = RunsAfter(TRUE, v, <<>>)
                  /\ pc' = "idle"
                  /\ frame' = NoFrame
     ELSE /\ last' = LoopThrow(NoPracticeMsg, frame.examined)
          /\ runs' = RunsAfter(FALSE, [num |-> 0, text |-> ""], NoPracticeMsg)
          /\ pc' = "idle"
          /\ frame' = NoFrame
  /\ UNCHANGED <<sheet, today, cache>>

getDateCol(loc) ==
  /\ pc = "idle"
  /\ LET live == cache[DATE_ROW_CACHE_KEY].ttl > 0
     IN IF ~loc.valid
        THEN EnterLoop("invalid", loc, TRUE, cache, <<>>, <<>>, live)
        ELSE LET f == getDateRowValues(sheet, cache)
                 col == DateIndex(f.dates, loc.date)
             IN IF col = -1
                THEN EnterLoop("notfound", loc, FALSE, f.cache, f.reads, f.puts, live)
                ELSE /\ cache' = f.cache
                     /\ last' = [NoCall EXCEPT
                                   !.fn = "getDateCol", !.loc = loc, !.status = "ok",
                                   !.num = DateColValue(col, loc), !.reads = f.reads,
                                   !.puts = f.puts, !.live = live, !.day = today]
                     /\ UNCHANGED <<pc, frame>>
  /\ UNCHANGED <<sheet, today, runs>>

Locators ==
  {[valid |-> TRUE, date |-> d, offset |-> o] :
     d \in {getDateText(5), getDateText(7)}, o \in {0, 1}}
  \cup {[valid |-> FALSE, date |-> "", offset |-> 0],
        [valid |-> FALSE, date |-> getDateText(7), offset |-> 1]}

----------------------------------------------------------------------------
(* getEventInfoFromCol, lines 128-160 *)

\* lines 138-143: the flattened display values of the info range of a column
InfoDisplayValues(s, col) ==
  [j \in 1 .. LAST_INFO_ROW - FIRST_INFO_ROW + 1 |-> s.display[FIRST_INFO_ROW + j - 1][col]]

\* displayValues[row - FIRST_INFO_ROW], a 0-based index
InfoField(displayValues, row) == displayValues[row - FIRST_INFO_ROW + 1]

\* lines 144-156: the EventInfo record built from the sheet
ReadEventInfo(s, col) ==
  LET displayValues == InfoDisplayValues(s, col)
  IN [eventType |-> InfoField(displayValues, DESCRIPTION_ROW),
      eventDate |-> InfoField(displayValues, DATE_ROW),
      eventTime |-> InfoField(displayValues, TIME_ROW),
      eventLocation |-> InfoField(displayValues, LOCATION_ROW),
      count |-> parseInt(InfoField(displayValues, COUNT_ROW)),
      includeTimeLoc |-> s.background[col] = WHITE_COLOR]

\* line 158: the key, the value and the TTL of the entry written on a miss
EventInfoPut(cacheKey, eventInfo) ==
  [key |-> cacheKey, val |-> JsonInfo(eventInfo), ttl |-> CACHE_DURATION_SHORT]

EventInfoMiss(s, c, cacheKey, col) ==
  LET eventInfo == ReadEventInfo(s, col)
      put == EventInfoPut(cacheKey, eventInfo)
  IN [info |-> eventInfo,
      cache |-> CachePut(c, put.key, put.val, put.ttl),
      reads |-> <<"getRange", "getDisplayValues", "getBackground">>,
      puts |-> <<put>>]

FetchEventInfo(s, c, col) ==
  LET cacheKey == EventKey(col)
      cacheResult == tryFetchCache(c, cacheKey)
  IN IF cacheResult.hit
     THEN [info |-> cacheResult.result, cache |-> c, reads |-> <<>>, puts |-> <<>>]
     ELSE EventInfoMiss(s, c, cacheKey, col)

getEventInfoFromCol(col) ==
  /\ pc = "idle"
  /\ LET f == FetchEventInfo(sheet, cache, col)
     IN /\ cache' = f.cache
        /\ last' = [NoCall EXCEPT
                      !.fn = "getEventInfoFromCol", !.col = col, !.status = "ok",
                      !.info = f.info, !.reads = f.reads, !.puts = f.puts,
                      !.live = cache[EventKey(col)].ttl > 0]
  /\ UNCHANGED <<sheet, today, pc, frame, runs>>

----------------------------------------------------------------------------
(* getEventDescriptionForCol, lines 171-181 *)

\* fixCase: the case correction of an event type
fixCase(s) ==
  CASE s = "PRACTICE" -> "Practice"
    [] s = "scrimmage" -> "Scrimmage"
    [] OTHER -> s

\* getEventDescription(eventInfo, includeTimeLoc)
getEventDescription(eventInfo, includeTimeLoc) ==
  IF includeTimeLoc
  THEN eventInfo.eventType \o " on " \o eventInfo.eventDate \o " from "
         \o eventInfo.eventTime \o " at " \o eventInfo.eventLocation
  ELSE eventInfo.eventType \o " on " \o eventInfo.eventDate


\* line 178 with the record's flag ignored
CallerFlagOnly(includeTimeLoc, eventInfo) == includeTimeLoc

\* line 178: includeTimeLoc && eventInfo.includeTimeLoc
EffectiveTimeLoc(includeTimeLoc, eventInfo) == includeTimeLoc /\ eventInfo.includeTimeLoc

\* lines 179-180
DescribeInfo(eventInfo, includeTimeLoc) ==
  getEventDescription([eventInfo EXCEPT !.eventType = fixCase(@)],
                      EffectiveTimeLoc(includeTimeLoc, eventInfo))

getEventDescriptionForCol(col, includeTimeLoc) ==
  /\ pc = "idle"
  /\ LET f == FetchEventInfo(sheet, cache, col)
     IN /\ cache' = f.cache
        /\ last' = [NoCall EXCEPT
                      !.fn = "getEventDescriptionForCol", !.col = col,
                      !.flag = includeTimeLoc, !.status = "ok",
                      !.text = DescribeInfo(f.info, includeTimeLoc),
                      !.reads = f.reads, !.puts = f.puts,
                      !.live = cache[EventKey(col)].ttl > 0]
  /\ UNCHANGED <<sheet, today, pc, frame, runs>>

----------------------------------------------------------------------------
(* Environment: time passes *)

\* one unit of time: every entry ages, an entry whose TTL is over is gone
Tick ==
  /\ pc = "idle"
  /\ \E k \in Keys : cache[k].ttl > 0
  /\ cache' = [k \in Keys |->
                 IF cache[k].ttl > 1 THEN [cache[k] EXCEPT !.ttl = @ - 1] ELSE NoEntry]
  /\ UNCHANGED <<sheet, today, pc, frame, last, runs>>

\* midnight passes
NextDay ==
  /\ pc = "idle"
  /\ today < MaxDay
  /\ today' = today + 1
  /\ UNCHANGED <<sheet, cache, pc, frame, last, runs>>

----------------------------------------------------------------------------

InitWith(sheets) ==
  /\ sheet \in sheets
  /\ today = 0
  /\ cache = [k \in Keys |-> NoEntry]
  /\ pc = "idle"
  /\ frame = NoFrame
  /\ last = NoCall
  /\ runs = [m \in BOOLEAN |-> NoRun]

Init == InitWith(CoreSheets)

Next ==
  \/ \E u \in Usernames : getUserRow(u)
  \/ \E loc \in Locators : getDateCol(loc)
  \/ \E returnCol \in BOOLEAN : getNextPracticeDate(returnCol)
  \/ LoopStep
  \/ \E col \in EventCols : getEventInfoFromCol(col)
  \/ \E col \in EventCols, includeTimeLoc \in BOOLEAN :
       getEventDescriptionForCol(col, includeTimeLoc)
  \/ Tick
  \/ NextDay

\* all the lookups interleaved, on a few whole sheets
Spec == Init /\ [][Next]_vars

\* the username lookup on every username column
InitUsers == InitWith(UserSheets)
NextUsers ==
  \/ \E u \in Usernames : getUserRow(u)
  \/ Tick
SpecUsers == InitUsers /\ [][NextUsers]_vars

\* the date lookups on every date row; the for loop of getNextPracticeDate
\* runs on once entered, the script being synchronous
InitDates == InitWith(DateSheets)
NextDates ==
  \/ \E loc \in Locators : getDateCol(loc)
  \/ \E returnCol \in BOOLEAN : getNextPracticeDate(returnCol)
  \/ LoopStep
  \/ Tick
  \/ NextDay
SpecDates == InitDates /\ [][NextDates]_vars
LiveDates == SpecDates /\ WF_vars(LoopStep)

\* the event lookups on every count row and colouring
InitEvents == InitWith(EventSheets)
NextEvents ==
  \/ \E col \in EventCols : getEventInfoFromCol(col)
  \/ \E col \in EventCols, includeTimeLoc \in BOOLEAN :
       getEventDescriptionForCol(col, includeTimeLoc)
  \/ Tick
SpecEvents == InitEvents /\ [][NextEvents]_vars

----------------------------------------------------------------------------
(* What the claims speak of, read off the sheet itself *)

Min(S) == CHOOSE x \in S : \A y \in S : x <= y

\* the rows after the header rows whose username cell is the string u
RowsOf(u) == {r \in HEADER_ROWS + 1 .. Len(sheet.users) : sheet.users[r] = Str(u)}

\* the columns after the header columns whose date-row text is text
ColsOf(text) ==
  {c \in HEADER_COLS + 1 .. Len(sheet.display[DATE_ROW]) :
     sheet.display[DATE_ROW][c] = text}

\* the candidate days within the search distance of day that the date row holds
MatchDays(day) ==
  {d \in day .. day + MAX_EVENT_SEARCH_DISTANCE - 1 : ColsOf(getDateText(d)) # {}}

\* the parts of a thrown text that are one of the given words
Contains(msg, word) == \E j \in 1 .. Len(msg) : msg[j] = word

----------------------------------------------------------------------------
(* Claims *)

\* C1: for every username in the username column after the header rows,
\* getUserRow returns the 1-based row of its first occurrence, the same on
\* every call, from a cache miss and from a cache hit alike.
C1_UserRowFirstOccurrence ==
  (last.fn = "getUserRow" /\ RowsOf(last.username) # {})
    => (last.status = "ok" /\ last.num = Min(RowsOf(last.username)))

\* C2: for every username absent from the username column after the header
\* rows, getUserRow fails with the not-found text, which contains the username.
C2_UserNotFound ==
  (last.fn = "getUserRow" /\ RowsOf(last.username) = {})
    => (last.status = "err" /\ Contains(last.msg, last.username)
        /\ Contains(last.msg, " not found on spreadsheet!"))

\* C3: for every valid locator whose date occurs in the date row after the
\* header columns, getDateCol returns matchIndex + offset + 1, matchIndex the
\* 0-based index of the first occurrence, and throws nothing.
C3_DateColOfMatch ==
  (last.fn = "getDateCol" /\ last.loc.valid /\ ColsOf(last.loc.date) # {})
    => (last.status = "ok"
        /\ last.num = (Min(ColsOf(last.loc.date)) - 1) + last.loc.offset + 1)

\* C3 witness: a date held twice is resolved with offset 1 from a cache hit
C3_Witness ==
  /\ last.fn = "getDateCol" /\ last.status = "ok" /\ last.loc.valid
  /\ last.loc.offset = 1 /\ last.live
  /\ Cardinality(ColsOf(last.loc.date)) = 2

Consecutive(examined, day) ==
  \A j \in 1 .. Len(examined) : examined[j] = day + j - 1

C5_Safe ==
  /\ pc = "loop" =>
       /\ frame.i <= MAX_EVENT_SEARCH_DISTANCE
       /\ Len(frame.examined) = frame.i
       /\ Consecutive(frame.examined, frame.day)
  /\ last.fn = "getNextPracticeDate" =>
       /\ Len(last.examined) <= MAX_EVENT_SEARCH_DISTANCE
       /\ Consecutive(last.examined, last.day)
       /\ IF MatchDays(last.day) # {}
          THEN LET d == Min(MatchDays(last.day))
               IN /\ last.status = "ok"
                  /\ last.examined[Len(last.examined)] = d
                  /\ last.returnCol => last.num = Min(ColsOf(getDateText(d)))
                  /\ ~last.returnCol => last.text = getDateText(d)
          ELSE /\ last.status = "err"
               /\ Contains(last.msg, "no practice in next ")
               /\ Len(last.examined) = MAX_EVENT_SEARCH_DISTANCE

\* C5: getNextPracticeDate examines at most MAX_EVENT_SEARCH_DISTANCE candidate
\* days, the current day first and then one day at a time, and always ends: it
\* returns the match of the earliest candidate day found in the date row after
\* the header columns, and throws the no-practice text when none matches.
C5_NextPracticeBounded == []C5_Safe /\ ((pc = "loop") ~> (pc = "idle"))

\* C5 witness: a match 5 days ahead is returned after 6 candidate days
C5_Witness ==
  /\ last.fn = "getNextPracticeDate" /\ last.status = "ok"
  /\ Len(last.examined) = 6
  /\ last.examined[6] = last.day + 5

\* C6: for an invalid locator getDateCol returns exactly the column its
\* column-mode run of getNextPracticeDate returned, whatever the locator's date
\* and offset, and when that run throws, getDateCol throws the same text.
C6_InvalidLocatorDelegates ==
  (last.fn = "getDateCol" /\ ~last.loc.valid)
    => /\ runs[TRUE].seen /\ runs[TRUE].day = last.day
       /\ runs[TRUE].ok => (last.status = "ok" /\ last.num = runs[TRUE].num)
       /\ ~runs[TRUE].ok => (last.status = "err" /\ last.msg = runs[TRUE].msg)

\* C6 witness: an invalid locator with a date and offset 1 resolves to a column
C6_Witness ==
  /\ last.fn = "getDateCol" /\ ~last.loc.valid /\ last.status = "ok"
  /\ last.loc.offset = 1 /\ last.loc.date # ""

\* C7: a call that finds its cache entry within its TTL reads nothing from the
\* sheet: no range, no last row or column, no display value, no background.
\* So a call that misses reads the sheet once, its nested lookups hitting the
\* entry it has just written.
C7_HitReadsNothing ==
  /\ (last.fn # "none" /\ last.live) => last.reads = <<>>
  /\ (pc = "loop" /\ frame.live) => frame.reads = <<>>
  /\ Len(last.reads) <= 3 /\ Len(frame.reads) <= 3

\* C7 witness: a username is resolved from a live cache entry
C7_Witness ==
  /\ last.fn = "getUserRow" /\ last.live /\ last.status = "ok"

\* the texts of a column's event, read off the sheet
TypeOf(col) == fixCase(sheet.display[DESCRIPTION_ROW][col])
ShortForm(col) == TypeOf(col) \o " on " \o sheet.display[DATE_ROW][col]
LongForm(col) ==
  ShortForm(col) \o " from " \o sheet.display[TIME_ROW][col]
    \o " at " \o sheet.display[LOCATION_ROW][col]
Highlighted(col) == sheet.background[col] # WHITE_COLOR

\* C8: getEventDescriptionForCol gives time and location exactly when the
\* caller's flag is true and the column is not highlighted: "{Type} on {date}
\* from {time} at {location}" then, and "{Type} on {date}" otherwise.
C8_DescriptionTimeLoc ==
  last.fn = "getEventDescriptionForCol"
    => last.text = IF last.flag /\ ~Highlighted(last.col)
                   THEN LongForm(last.col) ELSE ShortForm(last.col)

\* C8 witness: a highlighted column described with the caller's flag true
C8_Witness ==
  /\ last.fn = "getEventDescriptionForCol" /\ last.flag /\ Highlighted(last.col)
  /\ last.live

\* the entry a lookup that missed is to have written
OwnEntry ==
  CASE last.fn = "getUserRow" ->
         [key |-> USERNAME_COL_CACHE_KEY, val |-> sheet.users, ttl |-> CACHE_DURATION]
    [] last.fn \in {"getDateCol", "getNextPracticeDate"} ->
         [key |-> DATE_ROW_CACHE_KEY, val |-> sheet.display[DATE_ROW],
          ttl |-> CACHE_DURATION]
    [] OTHER ->
         [key |-> EventKey(last.col), val |-> ReadEventInfo(sheet, last.col),
          ttl |-> CACHE_DURATION_SHORT]

\* C9: a lookup that misses writes exactly one entry, under its own key, with
\* its own TTL, holding the data it read; keys of distinct columns differ, and
\* a hit for column c returns the record that was read from column c.
C9_CacheEntries ==
  /\ (last.fn # "none" /\ ~last.live) => last.puts = <<OwnEntry>>
  /\ \A c1, c2 \in EventCols : c1 # c2 => EventKey(c1) # EventKey(c2)
  /\ (last.fn = "getEventInfoFromCol" /\ last.live)
       => last.info = ReadEventInfo(sheet, last.col)

\* C10: on the same day and date row the two modes of getNextPracticeDate
\* agree: one succeeds exactly when the other does, and the column of column
\* mode is the first column after the header columns holding the text of text
\* mode.
C10_ModesAgree ==
  (runs[TRUE].seen /\ runs[FALSE].seen /\ runs[TRUE].day = runs[FALSE].day)
    => /\ runs[TRUE].ok <=> runs[FALSE].ok
       /\ runs[TRUE].ok => runs[TRUE].num = Min(ColsOf(runs[FALSE].text))

\* C10 witness: an invalid locator resolves to a column on the day a failed
\* lookup suggested the next practice
C10_Witness ==
  /\ last.fn = "getDateCol" /\ ~last.loc.valid /\ last.status = "ok"
  /\ runs[FALSE].seen /\ runs[FALSE].ok /\ runs[FALSE].day = last.day
  /\ last.num = Min(ColsOf(runs[FALSE].text))

====
